---- MODULE Spec2Model ----
(***************************************************************************)
(* Model of the media-server catalog synchronizer (MediaServerChain.sync,  *)
(* MediaServerOper) and of the Plex adapter operations used for refresh    *)
(* and existence matching.                                                 *)
(***************************************************************************)
EXTENDS Integers, Sequences, FiniteSets, TLC

VARIABLES
    MEDIASERVER,   \* settings.MEDIASERVER: the configured (active) media server
    lock,          \* module-level threading.Lock: 0 = free, else the holder
    pc,            \* position of each thread inside sync()
    session,       \* the _db session each sync() call opened: none/open/closed
    result,        \* how the last sync() call of the thread ended
    store,         \* the MediaServerItem table, rows in insertion order
    libsLeft,      \* libraries of the listing not yet entered, per thread
    itemsLeft,     \* bound on the items the current library may still yield
    yielded,       \* per thread and native id: the first row built for an
                   \* item with that id yielded in this cycle (<<>> if none)
    added,         \* per thread: what the last _dbOper.add call returned
    cycles,        \* number of sync() calls started so far
    plex,          \* Plex._plex: "PlexServer" when connected, else None
    libraries,     \* Plex._libraries: the sections of the last listing
    configured,    \* Plex._host and Plex._token are both set
    op,            \* name of the last adapter operation invoked
    args,          \* its arguments and the provider's answers to it
    calls,         \* the calls it issued, in order
    ret            \* what it returned

syncVars == <<MEDIASERVER, lock, pc, session, result, store, libsLeft,
              itemsLeft, yielded, added, cycles>>
adapterVars == <<plex, libraries, configured, op, args, calls, ret>>
vars == <<MEDIASERVER, lock, pc, session, result, store, libsLeft,
          itemsLeft, yielded, added, cycles, plex, libraries, configured, op,
          args, calls, ret>>

None == "None"

-----------------------------------------------------------------------------
(* Bounds                                                                  *)

NumThreads == 2
MaxCycles == 2
MaxLibs == 2
MaxItems == 2

Threads == 1..NumThreads
Servers == {"plex", "emby"}
ItemIds == {"k1", "k2"}

-----------------------------------------------------------------------------
(* Catalog store: MediaServerItem rows and MediaServerOper                 *)

\* str() of the integers that occur
str(n) ==
    CASE n = 0 -> "0"
      [] n = 1 -> "1"
      [] n = 2 -> "2"
      [] n = 603 -> "603"
      [] n = 604 -> "604"
      [] OTHER -> "3"

\* json.dumps of the season map: object keys become strings
json_dumps(seasoninfo) ==
    [k \in {str(s) : s \in DOMAIN seasoninfo} |->
        seasoninfo[CHOOSE s \in DOMAIN seasoninfo : str(s) = k]]

\* MediaServerItem.get_by_itemid, called on the item being added: the rows
\* sharing the item's (server, item_id) key
get_by_itemid(db, item, item_id) ==
    SelectSeq(db, LAMBDA r : r.server = item.server /\ r.item_id = item_id)

\* MediaServerItem.create: append the row
create(db, item) == Append(db, item)

\* MediaServerItem.empty: delete the rows of one server (all rows for None)
MediaServerItem_empty(db, server) ==
    IF server = None THEN << >>
    ELSE SelectSeq(db, LAMBDA r : r.server # server)

addAlways(db, item) == create(db, item)

\* MediaServerOper.add: insert unless a row with the key exists
add(db, item) ==
    IF get_by_itemid(db, item, item.item_id) = << >>
    THEN create(db, item)
    ELSE db

emptyNothing(db, server) == db

\* MediaServerOper.empty
empty(db, server) == MediaServerItem_empty(db, server)

-----------------------------------------------------------------------------
(* Provider side of a sync cycle                                           *)

\* What mediaserver_items of the module of `server` can yield: items tagged
\* with the module's own server name; item_id None for the trailing {} of
\* get_items
ModuleItems(server) ==
    [server : {server}, item_id : ItemIds \cup {None},
     item_type : {"movie", "show"}]

\* What self.episodes(item_id) can return for a show
EpisodesInfos ==
    { << >>, <<[season |-> 1, episodes |-> <<1, 2>>]>> }

\* sync lines 77-84: fold the season infos into a dict
RECURSIVE FoldSeasons(_, _)
FoldSeasons(infos, acc) ==
    IF infos = << >> THEN acc
    ELSE LET e == Head(infos)
             acc2 == [s \in (DOMAIN acc) \cup {e.season} |->
                         IF s = e.season THEN e.episodes ELSE acc[s]]
         IN FoldSeasons(Tail(infos), acc2)

\* sync line 79
ItemType(item) ==
    IF item.item_type \in {"Series", "show"} THEN "TV" ELSE "MOVIE"

\* sync lines 77-88: the row handed to add
ItemDict(item, espisodes_info) ==
    LET seasoninfo == IF ItemType(item) = "TV"
                      THEN FoldSeasons(espisodes_info, << >>)
                      ELSE << >>
    IN [server |-> item.server, item_id |-> item.item_id,
        item_type |-> ItemType(item), seasoninfo |-> json_dumps(seasoninfo)]

-----------------------------------------------------------------------------
(* MediaServerChain.sync, one step per statement that touches shared state *)

InCycle == {"open", "erase", "libs", "items", "close", "release"}

NothingYielded == [i \in ItemIds |-> << >>]

\* the locals of sync() die when the call ends
Forget(t) ==
    /\ libsLeft' = [libsLeft EXCEPT ![t] = 0]
    /\ itemsLeft' = [itemsLeft EXCEPT ![t] = 0]
    /\ yielded' = [yielded EXCEPT ![t] = NothingYielded]
    /\ added' = [added EXCEPT ![t] = None]

\* a thread calls sync() and blocks on `with lock`
Call(t) ==
    /\ pc[t] = "idle"
    /\ cycles < MaxCycles
    /\ cycles' = cycles + 1
    /\ pc' = [pc EXCEPT ![t] = "wait"]
    /\ session' = [session EXCEPT ![t] = "none"]
    /\ result' = [result EXCEPT ![t] = "none"]
    /\ UNCHANGED <<MEDIASERVER, lock, store, libsLeft, itemsLeft, yielded,
                   added>>

AcquireUnguarded(t) ==
    /\ pc[t] = "wait"
    /\ lock' = t
    /\ pc' = [pc EXCEPT ![t] = "open"]
    /\ UNCHANGED <<MEDIASERVER, session, result, store, libsLeft, itemsLeft,
                   yielded, added, cycles>>

\* line 58: lock.__enter__
Acquire(t) ==
    /\ pc[t] = "wait"
    /\ lock = 0
    /\ lock' = t
    /\ pc' = [pc EXCEPT ![t] = "open"]
    /\ UNCHANGED <<MEDIASERVER, session, result, store, libsLeft, itemsLeft,
                   yielded, added, cycles>>

\* lines 60-61: _db = SessionFactory()
OpenSession(t) ==
    /\ pc[t] = "open"
    /\ session' = [session EXCEPT ![t] = "open"]
    /\ pc' = [pc EXCEPT ![t] = "erase"]
    /\ UNCHANGED <<MEDIASERVER, lock, result, store, libsLeft, itemsLeft,
                   yielded, added, cycles>>

EmptyServerNone == None

\* line 66: the server whose rows are erased
EmptyServer == MEDIASERVER

\* line 66: _dbOper.empty(server=settings.MEDIASERVER)
Empty(t) ==
    /\ pc[t] = "erase"
    /\ store' = empty(store, EmptyServer)
    /\ pc' = [pc EXCEPT ![t] = "libs"]
    /\ UNCHANGED <<MEDIASERVER, lock, session, result, libsLeft, itemsLeft,
                   yielded, added, cycles>>

\* line 67: self.librarys() returns a listing of n libraries
Librarys(t, n) ==
    /\ pc[t] = "libs"
    /\ IF n = 0
       THEN /\ pc' = [pc EXCEPT ![t] = "close"]
            /\ UNCHANGED <<libsLeft, itemsLeft>>
       ELSE /\ pc' = [pc EXCEPT ![t] = "items"]
            /\ libsLeft' = [libsLeft EXCEPT ![t] = n - 1]
            /\ itemsLeft' = [itemsLeft EXCEPT ![t] = MaxItems]
    /\ UNCHANGED <<MEDIASERVER, lock, session, result, store, yielded, added,
                   cycles>>

\* lines 70-89: the generator yields one item, which is skipped or inserted
YieldItem(t, item, espisodes_info) ==
    /\ pc[t] = "items"
    /\ itemsLeft[t] > 0
    /\ itemsLeft' = [itemsLeft EXCEPT ![t] = @ - 1]
    /\ IF item.item_id = None
       THEN UNCHANGED <<store, yielded, added>>
       ELSE /\ store' = add(store, ItemDict(item, espisodes_info))
            /\ added' = [added EXCEPT ![t] =
                           IF add(store, ItemDict(item, espisodes_info)) # store
                           THEN "True" ELSE "False"]
            /\ yielded' = [yielded EXCEPT ![t][item.item_id] =
                             IF @ = << >>
                             THEN <<ItemDict(item, espisodes_info)>> ELSE @]
    /\ UNCHANGED <<MEDIASERVER, lock, pc, session, result, libsLeft, cycles>>

\* lines 70, 90-92, 67: the generator is exhausted; next library or leave
Exhausted(t) ==
    /\ pc[t] = "items"
    /\ IF libsLeft[t] > 0
       THEN /\ libsLeft' = [libsLeft EXCEPT ![t] = @ - 1]
            /\ itemsLeft' = [itemsLeft EXCEPT ![t] = MaxItems]
            /\ UNCHANGED pc
       ELSE /\ pc' = [pc EXCEPT ![t] = "close"]
            /\ UNCHANGED <<libsLeft, itemsLeft>>
    /\ UNCHANGED <<MEDIASERVER, lock, session, result, store, yielded, added,
                   cycles>>

\* lines 94-95: _db.close()
Close(t) ==
    /\ pc[t] = "close"
    /\ session' = [session EXCEPT ![t] = "closed"]
    /\ pc' = [pc EXCEPT ![t] = "release"]
    /\ UNCHANGED <<MEDIASERVER, lock, result, store, libsLeft, itemsLeft,
                   yielded, added, cycles>>

\* line 58: lock.__exit__ on the normal path; sync() returns
Release(t) ==
    /\ pc[t] = "release"
    /\ lock' = 0
    /\ pc' = [pc EXCEPT ![t] = "idle"]
    /\ result' = [result EXCEPT ![t] = "returned"]
    /\ Forget(t)
    /\ UNCHANGED <<MEDIASERVER, session, store, cycles>>

FaultKeepsLock(t) ==
    /\ pc[t] \in {"open", "erase", "libs", "items", "close"}
    /\ pc' = [pc EXCEPT ![t] = "idle"]
    /\ result' = [result EXCEPT ![t] = "raised"]
    /\ Forget(t)
    /\ UNCHANGED <<MEDIASERVER, lock, session, store, cycles>>

\* an exception raised by the statement the thread is at (lines 60-95)
\* leaves the with block: lock.__exit__ runs, nothing else does
Fault(t) ==
    /\ pc[t] \in {"open", "erase", "libs", "items", "close"}
    /\ lock' = 0
    /\ pc' = [pc EXCEPT ![t] = "idle"]
    /\ result' = [result EXCEPT ![t] = "raised"]
    /\ Forget(t)
    /\ UNCHANGED <<MEDIASERVER, session, store, cycles>>

\* the configured media server changes while no sync is running
Reconfigure(s) ==
    /\ \A t \in Threads : pc[t] = "idle"
    /\ s # MEDIASERVER
    /\ MEDIASERVER' = s
    /\ UNCHANGED <<lock, pc, session, result, store, libsLeft, itemsLeft,
                   yielded, added, cycles>>

SyncStep(t) ==
    \/ Acquire(t)
    \/ OpenSession(t)
    \/ Empty(t)
    \/ \E n \in 0..MaxLibs : Librarys(t, n)
    \/ \E item \in ModuleItems(MEDIASERVER) :
         \E e \in EpisodesInfos : YieldItem(t, item, e)
    \/ Exhausted(t)
    \/ Close(t)
    \/ Release(t)
    \/ Fault(t)

-----------------------------------------------------------------------------
(* Plex adapter: library path resolution and targeted refresh              *)

MaxSections == 2
MaxLocations == 1
MaxBatch == 2

\* A path string is written as the tuple of its segments after the root.
\* A location whose resolve() raises (Path.resolve on a symlink loop)
LoopLocation == <<"loop">>

\* library root strings the provider may report
Locations == { <<"a">>, <<"a", "b">>, <<"a", ".", "b">>, <<"c", "..", "a">>,
               LoopLocation }

\* target_path of a RefreshMediaItem: no path, or a path string
NoPath == << >>

TargetPaths == { NoPath, << <<"a", "f">> >>, << <<"a", "b", "f">> >>,
                 << <<"a", ".", "f">> >>, << <<"d", "..", "a", "b">> >>,
                 << <<"a", "..", "d">> >> }

RECURSIVE SeqsUpTo(_, _)
SeqsUpTo(S, n) ==
    IF n = 0 THEN { << >> }
    ELSE SeqsUpTo(S, n - 1) \cup
         {Append(q, x) : q \in {r \in SeqsUpTo(S, n - 1) : Len(r) = n - 1},
                         x \in S}

\* the sections a listing can return: key i for the i-th section
SectionLists ==
    UNION { [1..n -> SeqsUpTo(Locations, MaxLocations)] : n \in 0..MaxSections }

Sections(locs) ==
    [i \in DOMAIN locs |-> [key |-> str(i), locations |-> locs[i]]]

\* pathlib.Path(string): the parts tuple, root first, "." segments dropped
Path(string) == <<"/">> \o SelectSeq(string, LAMBDA seg : seg # ".")

\* str(path): the string again, written as the parts tuple; the empty
\* string "" is the empty tuple
PathStr(path) == path

EmptyStr == << >>

\* Path.resolve(): ".." segments are folded away
RECURSIVE Fold(_, _)
Fold(segs, acc) ==
    IF segs = << >> THEN acc
    ELSE IF Head(segs) = ".."
         THEN Fold(Tail(segs),
                   IF acc = << >> THEN acc ELSE SubSeq(acc, 1, Len(acc) - 1))
         ELSE Fold(Tail(segs), Append(acc, Head(segs)))

resolve(path) == <<"/">> \o Fold(Tail(path), << >>)

Raises(path) == path = Path(LoopLocation)

\* python slice s[:n]
Slice(s, n) == SubSeq(s, 1, IF n < Len(s) THEN n ELSE Len(s))

is_subpath_unresolved(pth, parent) ==
    Slice(pth, Len(parent)) = parent

\* lines 265-271
is_subpath(pth, parent) ==
    Slice(resolve(pth), Len(resolve(parent))) = resolve(parent)

Unresolved == [lib |-> "", path |-> EmptyStr]

\* lines 276-284: the two loops; an exception leaves them for line 284
RECURSIVE FindFrom(_, _, _, _)
FindFrom(pth, libs, i, j) ==
    IF i > Len(libs) THEN Unresolved
    ELSE IF j > Len(libs[i].locations) THEN FindFrom(pth, libs, i + 1, 1)
    ELSE IF Raises(Path(libs[i].locations[j])) THEN Unresolved
    ELSE IF is_subpath(pth, Path(libs[i].locations[j]))
         THEN [lib |-> libs[i].key, path |-> PathStr(pth)]
    ELSE FindFrom(pth, libs, i, j + 1)

\* lines 258-284: Plex.__find_librarie
find_librarie(target, libs) ==
    IF target = NoPath THEN Unresolved
    ELSE FindFrom(Path(target[1]), libs, 1, 1)

\* result_dict[path] = lib_key on an insertion-ordered dict
DictSet(dict, path, lib_key) ==
    IF \E k \in DOMAIN dict : dict[k].path = path
    THEN [k \in DOMAIN dict |->
            IF dict[k].path = path THEN [path |-> path, lib |-> lib_key]
            ELSE dict[k]]
    ELSE Append(dict, [path |-> path, lib |-> lib_key])

\* lines 243-248
RECURSIVE ResultDict(_, _, _)
ResultDict(items, libs, dict) ==
    IF items = << >> THEN dict
    ELSE LET r == find_librarie(Head(items), libs)
         IN ResultDict(Tail(items), libs, DictSet(dict, r.path, r.lib))

UpdateCall == [call |-> "update", lib |-> "", path |-> EmptyStr]

QueryCall(e) == [call |-> "refresh", lib |-> e.lib, path |-> e.path]

RefreshCallsResolvedOnly(result_dict) ==
    LET resolved == SelectSeq(result_dict, LAMBDA e : e.path # EmptyStr)
    IN [k \in DOMAIN resolved |-> QueryCall(resolved[k])]

\* lines 249-256: the calls issued for a result_dict
RefreshCalls(result_dict) ==
    IF \E k \in DOMAIN result_dict : result_dict[k].path = EmptyStr
    THEN <<UpdateCall>>
    ELSE [k \in DOMAIN result_dict |-> QueryCall(result_dict[k])]

\* the operation has returned and its caller is done with the result
Return ==
    /\ op # None
    /\ op' = None
    /\ args' = << >>
    /\ calls' = << >>
    /\ ret' = None
    /\ UNCHANGED <<plex, libraries, configured>>

\* lines 25-31: the connection attempt of Plex.__init__ under the settings
\* c: connect and list the sections, or fail; without settings no
\* connection is made
Connect(c, ok, locs) ==
    IF c /\ ok
    THEN plex' = "PlexServer" /\ libraries' = Sections(locs)
    ELSE plex' = None /\ UNCHANGED libraries

\* lines 17-31: Plex()
PlexInit(ok, locs) ==
    /\ op = None
    /\ Connect(configured, ok, locs)
    /\ UNCHANGED configured
    /\ op' = "Plex"
    /\ args' = << >>
    /\ calls' = << >>
    /\ ret' = None

\* lines 41-67: Plex.get_librarys
GetLibrarys(ok, locs) ==
    /\ op = None
    /\ op' = "get_librarys"
    /\ args' = << >>
    /\ calls' = << >>
    /\ IF plex = None
       THEN ret' = << >> /\ UNCHANGED libraries
       ELSE IF ok
            THEN libraries' = Sections(locs) /\ ret' = Sections(locs)
            ELSE ret' = << >> /\ UNCHANGED libraries
    /\ UNCHANGED <<plex, configured>>

\* lines 237-256: Plex.refresh_library_by_items
RefreshLibraryByItems(items) ==
    /\ op = None
    /\ op' = "refresh_library_by_items"
    /\ args' = items
    /\ IF plex = None
       THEN calls' = << >> /\ ret' = "False"
       ELSE /\ calls' = RefreshCalls(ResultDict(items, libraries, << >>))
            /\ ret' = None
    /\ UNCHANGED <<plex, libraries, configured>>

\* lines 258-284: Plex.__find_librarie applied to one path
FindLibrarie(target) ==
    /\ op = None
    /\ op' = "find_librarie"
    /\ args' = target
    /\ calls' = << >>
    /\ ret' = find_librarie(target, libraries)
    /\ UNCHANGED <<plex, libraries, configured>>

RefreshNext ==
    \/ /\ op = None
       /\ \E ok \in BOOLEAN, locs \in SectionLists : PlexInit(ok, locs)
       /\ UNCHANGED syncVars
    \/ /\ op = None
       /\ \E ok \in BOOLEAN, locs \in SectionLists : GetLibrarys(ok, locs)
       /\ UNCHANGED syncVars
    \/ /\ op = None
       /\ \E items \in SeqsUpTo(TargetPaths, MaxBatch) :
             RefreshLibraryByItems(items)
       /\ UNCHANGED syncVars
    \/ /\ op = None
       /\ \E target \in TargetPaths : FindLibrarie(target)
       /\ UNCHANGED syncVars
    \/ Return /\ UNCHANGED syncVars

-----------------------------------------------------------------------------
(* Plex adapter: existence of a movie                                      *)

MaxItemIds == 2

\* guids of the movies of the provider catalog; a guid id "tmdb://603" is
\* written as its prefix and the rest
Guid(prefix, rest) == [prefix |-> prefix, rest |-> rest]

MovieKeys == {"m1", "m2", "m3"}

MovieGuids(m) ==
    CASE m = "m1" -> <<Guid("imdb://", "tt1"), Guid("tmdb://", "603")>>
      [] m = "m2" -> <<Guid("tmdb://", "604")>>
      [] OTHER -> <<Guid("imdb://", "tt3")>>

\* tmdb_id of the media info; 0 stands for None (both are falsy)
TmdbIds == {0, 603, 604}

guid_mapping ==
    << [prefix |-> "imdb://", varname |-> "imdb_id"],
       [prefix |-> "tmdb://", varname |-> "tmdb_id"],
       [prefix |-> "tvdb://", varname |-> "tvdb_id"] >>

\* lines 311-321: the inner loop over guid_mapping for one guid
RECURSIVE MatchGuid(_, _, _)
MatchGuid(ids, guid, k) ==
    IF k > Len(guid_mapping) THEN ids
    ELSE IF guid.prefix = guid_mapping[k].prefix
         THEN [ids EXCEPT ![guid_mapping[k].varname] = guid.rest]
         ELSE MatchGuid(ids, guid, k + 1)

\* lines 310-322: the outer loop over the guids
RECURSIVE GetIdsFrom(_, _)
GetIdsFrom(ids, guids) ==
    IF guids = << >> THEN ids
    ELSE GetIdsFrom(MatchGuid(ids, Head(guids), 1), Tail(guids))

\* lines 300-322: Plex.__get_ids
get_ids(guids) ==
    GetIdsFrom([v \in {"imdb_id", "tmdb_id", "tvdb_id"} |-> None], guids)

\* lines 286-298: Plex.get_iteminfo; {} is the empty tuple.  fetchable is the
\* set of ids for which fetchItem and the reading of the guids succeed
get_iteminfo(itemid, fetchable) ==
    IF plex = None THEN << >>
    ELSE IF itemid \in fetchable THEN <<"ProviderIds">>
    ELSE << >>

KeepsMovieStrict(m, tmdb_id) ==
    tmdb_id = 0 \/ get_ids(MovieGuids(m)).tmdb_id = str(tmdb_id)

\* lines 157-160: whether the candidate is appended to ret_movies
KeepsMovie(m, tmdb_id) ==
    LET movie_tmdbid == get_ids(MovieGuids(m)).tmdb_id
    IN ~ (/\ tmdb_id # 0
          /\ movie_tmdbid # None
          /\ movie_tmdbid # str(tmdb_id))

\* lines 131-162: Plex.get_movies; byTitle and byOriginal are the answers of
\* the two library searches.  The result is None when not connected, else
\* the set of candidates that ret_movies has an entry for
get_movies(mi, byTitle, byOriginal) ==
    IF plex = None THEN [none |-> TRUE, movies |-> {}]
    ELSE LET movies ==
                 IF mi.original_title # None /\ mi.original_title # mi.title
                 THEN byTitle \cup byOriginal
                 ELSE byTitle
         IN [none |-> FALSE,
             movies |-> {m \in movies : KeepsMovie(m, mi.tmdb_id)}]

IteminfoCall(id) == [call |-> "get_iteminfo", arg |-> id]

MoviesCall == [call |-> "get_movies", arg |-> ""]

RECURSIVE LookupsWithoutReturn(_, _, _)
LookupsWithoutReturn(itemid, fetchable, log) ==
    IF itemid = << >> THEN [hit |-> FALSE, log |-> log]
    ELSE LookupsWithoutReturn(Tail(itemid), fetchable,
                              Append(log, IteminfoCall(Head(itemid))))

\* lines 52-56 of the module: the loop over itemid with its early return
RECURSIVE Lookups(_, _, _)
Lookups(itemid, fetchable, log) ==
    IF itemid = << >> THEN [hit |-> FALSE, log |-> log]
    ELSE IF get_iteminfo(Head(itemid), fetchable) # << >>
         THEN [hit |-> TRUE, log |-> Append(log, IteminfoCall(Head(itemid)))]
         ELSE Lookups(Tail(itemid), fetchable,
                      Append(log, IteminfoCall(Head(itemid))))

MediaInfos ==
    [title : {"t"}, original_title : {None, "t", "o"}, year : {None, "1999"},
     tmdb_id : TmdbIds]

\* lines 51-66 of the module: PlexModule.media_exists for a movie
MediaExistsMovie(mi, itemid, fetchable, byTitle, byOriginal) ==
    LET looked == Lookups(itemid, fetchable, << >>)
        found == get_movies(mi, byTitle, byOriginal)
    IN /\ op = None
       /\ op' = "media_exists"
       /\ args' = [mediainfo |-> mi, itemid |-> itemid,
                   fetchable |-> fetchable, byTitle |-> byTitle,
                   byOriginal |-> byOriginal]
       /\ IF looked.hit
          THEN /\ calls' = looked.log
               /\ ret' = [exists |-> TRUE, movies |-> {}]
          ELSE /\ calls' = Append(looked.log, MoviesCall)
               /\ ret' = [exists |-> ~found.none /\ found.movies # {},
                          movies |-> found.movies]
       /\ UNCHANGED <<plex, libraries, configured>>

\* lines 17-31: Plex() for a server without library sections
PlexConnect(ok) == PlexInit(ok, << >>)

ExistsNext ==
    \/ \E ok \in BOOLEAN : PlexConnect(ok) /\ UNCHANGED syncVars
    \/ /\ op = None
       /\ \E mi \in MediaInfos, itemid \in SeqsUpTo(ItemIds, MaxItemIds),
             fetchable \in SUBSET ItemIds, byTitle \in SUBSET MovieKeys,
             byOriginal \in SUBSET MovieKeys :
            MediaExistsMovie(mi, itemid, fetchable, byTitle, byOriginal)
       /\ UNCHANGED syncVars
    \/ Return /\ UNCHANGED syncVars

-----------------------------------------------------------------------------
(* Plex adapter: episodes of a show                                        *)

MaxResults == 2

\* the shows of the provider catalog, their guids, native ids and episodes
ShowKeys == {"s1", "s2", "s3"}

ShowGuids(v) ==
    CASE v = "s1" -> <<Guid("imdb://", "tt1"), Guid("tmdb://", "603")>>
      [] v = "s2" -> <<Guid("tmdb://", "604")>>
      [] OTHER -> << >>

ShowNativeId(v) ==
    CASE v = "s1" -> "k1"
      [] v = "s2" -> "k2"
      [] OTHER -> "k3"

Episode(seasonNumber, index) ==
    [seasonNumber |-> seasonNumber, index |-> index]

\* videos.episodes() of each show, in provider order
ShowEpisodes(v) ==
    CASE v = "s1" -> <<Episode(0, 1), Episode(1, 1), Episode(1, 2),
                        Episode(2, 1)>>
      [] v = "s2" -> <<Episode(1, 1)>>
      [] OTHER -> << >>

\* the season argument; NoSeason stands for None
NoSeason == -1

Seasons == {NoSeason, 0, 1, 2}

\* python truthiness of the season argument
Truthy(season) == season # NoSeason /\ season # 0

\* line 201: whether the episode is skipped
SkipsEpisode(episode, season) ==
    Truthy(season) /\ episode.seasonNumber # season

\* lines 203-205: append the episode index under its season
AddEpisode(season_episodes, episode) ==
    [s \in (DOMAIN season_episodes) \cup {episode.seasonNumber} |->
        IF s \in DOMAIN season_episodes
        THEN IF s = episode.seasonNumber
             THEN Append(season_episodes[s], episode.index)
             ELSE season_episodes[s]
        ELSE <<episode.index>>]

\* lines 199-206: the loop over the episodes
RECURSIVE SeasonEpisodes(_, _, _)
SeasonEpisodes(episodes, season, season_episodes) ==
    IF episodes = << >> THEN season_episodes
    ELSE SeasonEpisodes(Tail(episodes), season,
             IF SkipsEpisode(Head(episodes), season) THEN season_episodes
             ELSE AddEpisode(season_episodes, Head(episodes)))

TvMismatchIgnored(video, tmdb_id) == FALSE

\* lines 194-197: the resolved show exposes another tmdb id
TvMismatch(video, tmdb_id) ==
    LET video_tmdbid == get_ids(ShowGuids(video)).tmdb_id
    IN /\ tmdb_id # 0
       /\ video_tmdbid # None
       /\ video_tmdbid # str(tmdb_id)

TvResult(raised, map, log) == [raised |-> raised, map |-> map, calls |-> log]

\* lines 183-189: the videos the lookup works on, with the calls made.
\* env gives the provider's answers: found/secAll for sectionByID(..).all(),
\* byTitle/byOriginal for the two searches, fails for a transport failure
\* of the first call
TvVideos(item_ids, mi, env) ==
    IF item_ids # << >>
    THEN IF env.fails \/ ~env.found
         THEN [raised |-> TRUE, videos |-> << >>, calls |-> <<"sectionByID">>]
         ELSE [raised |-> FALSE, videos |-> env.secAll,
               calls |-> <<"sectionByID">>]
    ELSE IF env.fails
         THEN [raised |-> TRUE, videos |-> << >>, calls |-> <<"search_title">>]
         ELSE IF /\ env.byTitle = << >>
                 /\ mi.original_title # None
                 /\ mi.original_title # mi.title
              THEN [raised |-> FALSE, videos |-> env.byOriginal,
                    calls |-> <<"search_title", "search_original">>]
              ELSE [raised |-> FALSE, videos |-> env.byTitle,
                    calls |-> <<"search_title">>]

\* lines 164-206: Plex.get_tv_episodes; {} is the empty function
get_tv_episodes(item_ids, mi, season, env) ==
    IF plex = None THEN TvResult(FALSE, << >>, << >>)
    ELSE LET v == TvVideos(item_ids, mi, env)
         IN IF v.raised THEN TvResult(TRUE, << >>, v.calls)
            ELSE IF v.videos = << >> THEN TvResult(FALSE, << >>, v.calls)
            ELSE IF TvMismatch(v.videos[1], mi.tmdb_id)
                 THEN TvResult(FALSE, << >>, v.calls)
            ELSE TvResult(FALSE,
                          SeasonEpisodes(ShowEpisodes(v.videos[1]), season,
                                         << >>),
                          Append(v.calls, "episodes"))

\* the answers the provider can give to one lookup
TvEnvs(item_ids) ==
    IF item_ids # << >>
    THEN [fails : {FALSE}, found : {TRUE},
          secAll : SeqsUpTo(ShowKeys, MaxResults),
          byTitle : {<< >>}, byOriginal : {<< >>}]
         \cup [fails : BOOLEAN, found : {FALSE}, secAll : {<< >>},
               byTitle : {<< >>}, byOriginal : {<< >>}]
    ELSE [fails : {FALSE}, found : {FALSE}, secAll : {<< >>},
          byTitle : SeqsUpTo(ShowKeys, MaxResults),
          byOriginal : SeqsUpTo(ShowKeys, MaxResults)]
         \cup [fails : {TRUE}, found : {FALSE}, secAll : {<< >>},
               byTitle : {<< >>}, byOriginal : {<< >>}]

\* lines 164-206: one call of Plex.get_tv_episodes
GetTvEpisodes(item_ids, mi, season, env) ==
    LET r == get_tv_episodes(item_ids, mi, season, env)
    IN /\ op = None
       /\ op' = "get_tv_episodes"
       /\ args' = [item_ids |-> item_ids, mediainfo |-> mi,
                   season |-> season, env |-> env]
       /\ calls' = r.calls
       /\ ret' = [raised |-> r.raised, map |-> r.map]
       /\ UNCHANGED <<plex, libraries, configured>>

\* lines 67-78 of the module: PlexModule.media_exists for a show; an
\* exception of get_tv_episodes passes through, no frame catches it
MediaExistsTv(mi, itemid, env) ==
    LET tvs == get_tv_episodes(itemid, mi, NoSeason, env)
    IN /\ op = None
       /\ op' = "media_exists_tv"
       /\ args' = [mediainfo |-> mi, itemid |-> itemid, env |-> env]
       /\ calls' = tvs.calls
       /\ ret' = IF tvs.raised
                 THEN [raised |-> TRUE, exists |-> FALSE, seasons |-> << >>]
                 ELSE [raised |-> FALSE, exists |-> tvs.map # << >>,
                       seasons |-> tvs.map]
       /\ UNCHANGED <<plex, libraries, configured>>

TvNext ==
    \/ /\ op = None
       /\ \E ok \in BOOLEAN : PlexConnect(ok)
       /\ UNCHANGED syncVars
    \/ /\ op = None
       /\ \E item_ids \in SeqsUpTo(ItemIds, MaxItemIds), mi \in MediaInfos,
             season \in Seasons :
            \E env \in TvEnvs(item_ids) :
               GetTvEpisodes(item_ids, mi, season, env)
       /\ UNCHANGED syncVars
    \/ /\ op = None
       /\ \E itemid \in SeqsUpTo(ItemIds, MaxItemIds), mi \in MediaInfos :
            \E env \in TvEnvs(itemid) : MediaExistsTv(mi, itemid, env)
       /\ UNCHANGED syncVars
    \/ Return /\ UNCHANGED syncVars

-----------------------------------------------------------------------------
(* Plex adapter: external ids of an item                                   *)

MaxGuids == 2

\* the guid entries a provider item can carry: each is a plain dict or an
\* object (line 312), and its id starts with a known scheme or with another
GuidPrefixes == {"imdb://", "tmdb://", "tvdb://", "mbid://"}

GuidEntries ==
    [prefix : GuidPrefixes, rest : {"1", "2"}, form : {"dict", "object"}]

\* lines 300-322: one call of Plex.__get_ids; both forms of an entry are
\* read the same way (lines 313-315 and 318-320)
GetIds(guids) ==
    /\ op = None
    /\ op' = "get_ids"
    /\ args' = guids
    /\ calls' = << >>
    /\ ret' = get_ids(guids)
    /\ UNCHANGED <<plex, libraries, configured>>

IdsNext ==
    \/ /\ op = None
       /\ \E guids \in SeqsUpTo(GuidEntries, MaxGuids) : GetIds(guids)
       /\ UNCHANGED syncVars
    \/ Return /\ UNCHANGED syncVars

-----------------------------------------------------------------------------
(* Plex adapter: normalisation of a webhook message                        *)

\* lines 487 and 496: the longest summary that is kept whole
OverviewLimit == 100

\* a text of n characters
Text(n) == [i \in 1..n |-> "c"]

Ellipsis == <<".", ".", ".">>

\* an optional value: the empty tuple is an absent key (None)
Opt(S) == {<< >>} \cup {<<x>> : x \in S}

Summaries == {Text(0), Text(3), Text(OverviewLimit), Text(OverviewLimit + 1)}

Metadatas ==
    [type : {"episode", "movie", "show"}, summary : Opt(Summaries),
     ratingKey : {None, "k1"}]

Players == [title : {None, "MagicBook"}, publicAddress : {"10.0.0.1"}]

Accounts == [title : {"user"}]

Messages ==
    [event : {None, "media.play"}, Metadata : Opt(Metadatas),
     Player : Opt(Players), Account : Opt(Accounts)]

NoMessage ==
    [event |-> None, Metadata |-> << >>, Player |-> << >>, Account |-> << >>]

\* the payload field: a text that json.loads rejects, or a JSON document
Payloads ==
    {[valid |-> FALSE, message |-> NoMessage]}
        \cup [valid : {TRUE}, message : Messages]

\* the inbound form: empty, or with an optional payload field
Forms ==
    {[empty |-> TRUE, payload |-> << >>]}
        \cup [empty : {FALSE}, payload : Opt(Payloads)]

\* what the server answers to the artwork request
Artworks == [fails : BOOLEAN, key : {None, "http://art"}]

\* line 474: WebhookEventInfo(event=eventType, channel="plex"); the other
\* fields are optional and start as None.  item_name, season_id and
\* episode_id are copies of Metadata fields and are left out
WebhookEventInfo(eventType, channel) ==
    [event |-> eventType, channel |-> channel, item_type |-> None,
     item_id |-> None, overview |-> << >>, ip |-> None, client |-> None,
     device_name |-> None, user_name |-> None, image_url |-> None]

\* lines 488 and 497: str(summary)[:100] + "..."
Truncated(summary) == SubSeq(summary, 1, OverviewLimit) \o Ellipsis

\* lines 487-490: the overview of an episode
EpisodeOverview(md) ==
    IF /\ md.summary # << >>
       /\ md.summary[1] # << >>
       /\ Len(md.summary[1]) > OverviewLimit
    THEN [raised |-> FALSE, overview |-> <<Truncated(md.summary[1])>>]
    ELSE [raised |-> FALSE, overview |-> md.summary]

\* lines 496-499: the overview of a movie or show; len(None) raises
MovieOverview(md) ==
    IF md.summary = << >> THEN [raised |-> TRUE, overview |-> << >>]
    ELSE IF Len(md.summary[1]) > OverviewLimit
         THEN [raised |-> FALSE, overview |-> <<Truncated(md.summary[1])>>]
         ELSE [raised |-> FALSE, overview |-> md.summary]

\* lines 475-499: the fields taken from Metadata
WithMetadata(eventItem, message) ==
    IF message.Metadata = << >>
    THEN [raised |-> FALSE, item |-> eventItem]
    ELSE LET md == message.Metadata[1]
             ov == IF md.type = "episode" THEN EpisodeOverview(md)
                   ELSE MovieOverview(md)
             item_type == IF md.type = "episode" THEN "TV"
                          ELSE IF md.type = "movie" THEN "MOV" ELSE "SHOW"
         IN [raised |-> ov.raised,
             item |-> [eventItem EXCEPT !.item_type = item_type,
                                        !.item_id = md.ratingKey,
                                        !.overview = ov.overview]]

\* lines 500-504: the fields taken from Player
WithPlayer(eventItem, message) ==
    IF message.Player = << >> THEN eventItem
    ELSE [eventItem EXCEPT !.ip = message.Player[1].publicAddress,
                           !.client = message.Player[1].title,
                           !.device_name = " "]

\* lines 505-506: the fields taken from Account
WithAccount(eventItem, message) ==
    IF message.Account = << >> THEN eventItem
    ELSE [eventItem EXCEPT !.user_name = message.Account[1].title]

\* lines 208-227: Plex.get_remote_image_by_id
get_remote_image_by_id(item_id, artwork) ==
    IF plex = None THEN None
    ELSE IF artwork.fails THEN None
    ELSE artwork.key

\* lines 509-512: the artwork of the item
WithImage(eventItem, artwork) ==
    IF eventItem.item_id = None THEN eventItem
    ELSE [eventItem EXCEPT
             !.image_url = get_remote_image_by_id(eventItem.item_id, artwork)]

WebhookResult(raised, event) == [raised |-> raised, event |-> event]

\* lines 460-514: Plex.get_webhook_message
get_webhook_message(form, artwork) ==
    IF form.empty THEN WebhookResult(FALSE, << >>)
    ELSE IF form.payload = << >> THEN WebhookResult(FALSE, << >>)
    ELSE IF ~form.payload[1].valid THEN WebhookResult(FALSE, << >>)
    ELSE LET message == form.payload[1].message
         IN IF message.event = None THEN WebhookResult(FALSE, << >>)
            ELSE LET md == WithMetadata(WebhookEventInfo(message.event, "plex"),
                                        message)
                 IN IF md.raised THEN WebhookResult(TRUE, << >>)
                    ELSE WebhookResult(FALSE,
                             <<WithImage(WithAccount(WithPlayer(md.item,
                                                                message),
                                                     message),
                                         artwork)>>)

\* lines 460-514: one call of Plex.get_webhook_message
GetWebhookMessage(form, artwork) ==
    /\ op = None
    /\ op' = "get_webhook_message"
    /\ args' = [form |-> form, artwork |-> artwork]
    /\ calls' = << >>
    /\ ret' = get_webhook_message(form, artwork)
    /\ UNCHANGED <<plex, libraries, configured>>

WebhookNext ==
    \/ /\ op = None
       /\ \E ok \in BOOLEAN : PlexConnect(ok)
       /\ UNCHANGED syncVars
    \/ /\ op = None
       /\ \E form \in Forms, artwork \in Artworks :
             GetWebhookMessage(form, artwork)
       /\ UNCHANGED syncVars
    \/ Return /\ UNCHANGED syncVars

-----------------------------------------------------------------------------
(* PlexModule: initialisation and the periodic reconnect check             *)

\* lines 33-39: Plex.is_inactive
is_inactive ==
    IF ~configured THEN FALSE
    ELSE plex = None

\* lines 17-18 of the module: init_module under the settings c
InitModule(c, ok, locs) ==
    /\ op = None
    /\ op' = "init_module"
    /\ args' = << >>
    /\ calls' = <<"Plex">>
    /\ ret' = None
    /\ configured' = c
    /\ Connect(c, ok, locs)

\* lines 26-32 of the module: scheduler_job; args keeps the adapter state the
\* check found, calls whether Plex() was built again
SchedulerJob(ok, locs) ==
    /\ op = None
    /\ op' = "scheduler_job"
    /\ args' = [configured |-> configured, plex |-> plex]
    /\ ret' = None
    /\ IF ~is_inactive
       THEN /\ Connect(configured, ok, locs)
            /\ calls' = <<"Plex">>
       ELSE /\ UNCHANGED <<plex, libraries>>
            /\ calls' = << >>
    /\ UNCHANGED configured

SchedulerNext ==
    \/ /\ op = None
       /\ \E c \in BOOLEAN, ok \in BOOLEAN, locs \in SectionLists :
             InitModule(c, ok, locs)
       /\ UNCHANGED syncVars
    \/ /\ op = None
       /\ \E ok \in BOOLEAN, locs \in SectionLists : SchedulerJob(ok, locs)
       /\ UNCHANGED syncVars
    \/ Return /\ UNCHANGED syncVars

-----------------------------------------------------------------------------
(* MediaServerOper: existence of a catalog item                            *)

\* the columns sync copies from the provider item (item.dict(), line 86):
\* the catalogue gives item k1 the tmdb id 603 and item k2 the tmdb id 604,
\* and both the title "t"
Tmdbid(row) == IF row.item_id = "k1" THEN 603 ELSE 604

Title(row) == "t"

\* the season argument of exists: absent, a number, or a numeral
SeasonNumbers == 0..2

SeasonArgs ==
    {[type |-> "none", value |-> 0]}
        \cup [type : {"int", "str"}, value : SeasonNumbers]

Kwargs ==
    [tmdbid : {0, 603}, title : {None, "t"}, mtype : {"TV", "MOVIE"},
     season : SeasonArgs]

\* MediaServerItem.exist_by_tmdbid: the rows with the tmdb id and the type
exist_by_tmdbid(db, tmdbid, mtype) ==
    SelectSeq(db, LAMBDA r : Tmdbid(r) = tmdbid /\ r.item_type = mtype)

\* MediaServerItem.exists_by_title: the rows with the title and the type
exists_by_title(db, title, mtype) ==
    SelectSeq(db, LAMBDA r : Title(r) = title /\ r.item_type = mtype)

\* line 50: python truthiness of kwargs.get("season")
SeasonGiven(season) ==
    \/ season.type = "str"
    \/ season.type = "int" /\ season.value # 0

\* line 55: kwargs.get("season") in seasoninfo.keys(); the keys of the
\* loaded JSON object are strings, and a number equals no string
InKeys(season, seasoninfo) ==
    season.type = "str" /\ str(season.value) \in DOMAIN seasoninfo

\* lines 49-57: the loop that fills items_valid; the seasoninfo text written
\* by json.dumps is never empty, so line 52 never skips a row
ItemsValid(items, season) ==
    SelectSeq(items, LAMBDA item :
        SeasonGiven(season) /\ InKeys(season, item.seasoninfo))

\* lines 34-59: MediaServerOper.exists
exists(db, kwargs) ==
    IF kwargs.tmdbid # 0
    THEN LET items == exist_by_tmdbid(db, kwargs.tmdbid, kwargs.mtype)
         IN IF ItemsValid(items, kwargs.season) # << >>
            THEN ItemsValid(items, kwargs.season) ELSE items
    ELSE IF kwargs.title # None
    THEN LET items == exists_by_title(db, kwargs.title, kwargs.mtype)
         IN IF ItemsValid(items, kwargs.season) # << >>
            THEN ItemsValid(items, kwargs.season) ELSE items
    ELSE << >>

\* lines 61-66: MediaServerOper.get_item_id_list; item ids are strings
get_item_id_list(db, kwargs) ==
    [k \in DOMAIN exists(db, kwargs) |-> exists(db, kwargs)[k].item_id]

\* one call of get_item_id_list on the catalog while no sync cycle runs
GetItemIdList(kwargs) ==
    /\ op = None
    /\ \A t \in Threads : pc[t] = "idle"
    /\ op' = "get_item_id_list"
    /\ args' = kwargs
    /\ calls' = << >>
    /\ ret' = [items |-> exists(store, kwargs),
               ids |-> get_item_id_list(store, kwargs)]
    /\ UNCHANGED <<plex, libraries, configured>>

-----------------------------------------------------------------------------

Init ==
    /\ MEDIASERVER \in Servers
    /\ lock = 0
    /\ pc = [t \in Threads |-> "idle"]
    /\ session = [t \in Threads |-> "none"]
    /\ result = [t \in Threads |-> "none"]
    /\ store = << >>
    /\ libsLeft = [t \in Threads |-> 0]
    /\ itemsLeft = [t \in Threads |-> 0]
    /\ yielded = [t \in Threads |-> NothingYielded]
    /\ added = [t \in Threads |-> None]
    /\ cycles = 0
    /\ plex = None
    /\ libraries = << >>
    /\ configured = TRUE
    /\ op = None
    /\ args = << >>
    /\ calls = << >>
    /\ ret = None

Next ==
    \/ \E t \in Threads : Call(t) /\ UNCHANGED adapterVars
    \/ \E t \in Threads : SyncStep(t) /\ UNCHANGED adapterVars
    \/ \E s \in Servers : Reconfigure(s) /\ UNCHANGED adapterVars

Spec == Init /\ [][Next]_vars

RefreshSpec == Init /\ [][RefreshNext]_vars

ExistsSpec == Init /\ [][ExistsNext]_vars

TvSpec == Init /\ [][TvNext]_vars

IdsSpec == Init /\ [][IdsNext]_vars

WebhookSpec == Init /\ [][WebhookNext]_vars

SchedulerSpec == Init /\ [][SchedulerNext]_vars

\* sync cycles, and between them queries of the catalog
StoreNext ==
    \/ op = None /\ Next
    \/ /\ op = None
       /\ \E kwargs \in Kwargs : GetItemIdList(kwargs)
       /\ UNCHANGED syncVars
    \/ Return /\ UNCHANGED syncVars

StoreSpec == Init /\ [][StoreNext]_vars

\* every thread inside sync() keeps running, and a blocked acquire returns
\* once the lock is free
FairSpec ==
    Spec /\ \A t \in Threads : WF_vars(SyncStep(t) /\ UNCHANGED adapterVars)

-----------------------------------------------------------------------------
(* Properties of the synchronizer                                          *)

Key(r) == <<r.server, r.item_id>>

RowsOf(db, server) == SelectSeq(db, LAMBDA r : r.server = server)

RowsNotOf(db, server) == SelectSeq(db, LAMBDA r : r.server # server)

Range(seq) == {seq[i] : i \in DOMAIN seq}

\* C1: sync cycles serialize. At most one thread is between acquiring and
\* releasing the lock, that thread is the lock holder, and every step that
\* changes the store (erase or insert) is taken by the lock holder while no
\* other thread is inside its cycle.
C1_CyclesSerialize ==
    [][/\ \A t, u \in Threads :
            (pc'[t] \in InCycle /\ pc'[u] \in InCycle) => t = u
       /\ \A t \in Threads : pc'[t] \in InCycle => lock' = t
       /\ store' # store =>
            \E t \in Threads :
               /\ lock = t
               /\ pc[t] \in {"erase", "items"}
               /\ \A u \in Threads \ {t} : pc[u] \notin InCycle]_vars

\* a second sync() is blocked on the lock while the first one has erased and
\* inserted rows
C1_Witness ==
    \E t, u \in Threads :
        /\ pc[t] = "items"
        /\ pc[u] = "wait"
        /\ lock = t
        /\ store # << >>

\* C2: the rows of the store have pairwise distinct (server, item_id) keys
\* in every state, whatever the provider yields; the row kept for a key
\* during a cycle is the one built from the first item yielded with that
\* id, so a later duplicate is dropped and overwrites nothing.
C2_UniqueKeys ==
    /\ \A i, j \in DOMAIN store : Key(store[i]) = Key(store[j]) => i = j
    /\ \A t \in Threads :
         pc[t] \in {"items", "close", "release"} =>
            \A r \in Range(RowsOf(store, MEDIASERVER)) :
               yielded[t][r.item_id] = <<r>>

\* an add call of the running cycle found the key present and returned False
C2_Witness ==
    \E t \in Threads :
        /\ pc[t] = "items"
        /\ added[t] = "False"
        /\ RowsOf(store, MEDIASERVER) # << >>

\* C3: when a cycle has completed, the rows tagged with the active server
\* are exactly the rows built from the items with a native id yielded in
\* this cycle, one per id, whatever the other servers' rows are.
C3_RebuiltFromCleanSlate ==
    \A t \in Threads :
        pc[t] = "release" =>
           /\ Range(RowsOf(store, MEDIASERVER)) =
                 {yielded[t][i][1] : i \in {k \in ItemIds : yielded[t][k] # << >>}}
           /\ Len(RowsOf(store, MEDIASERVER)) =
                 Cardinality({k \in ItemIds : yielded[t][k] # << >>})

\* a completed cycle inserted an item whose item_id is also held by a row of
\* another server
C3_Witness ==
    \E t \in Threads :
        /\ pc[t] = "release"
        /\ \E i, j \in DOMAIN store :
              /\ store[i].server # MEDIASERVER
              /\ store[j].server = MEDIASERVER
              /\ store[i].item_id = store[j].item_id

\* C4: no step of a sync cycle changes the rows tagged with a server other
\* than the active one, and every row a step adds is tagged with the active
\* server.
C4_OtherServersUntouched ==
    [][/\ RowsNotOf(store', MEDIASERVER) = RowsNotOf(store, MEDIASERVER)
       /\ \A r \in Range(store') \ Range(store) : r.server = MEDIASERVER]_vars

\* a cycle has erased and is repopulating while another server's rows are
\* in the store
C4_Witness ==
    \E t \in Threads :
        /\ pc[t] = "items"
        /\ RowsNotOf(store, MEDIASERVER) # << >>
        /\ RowsOf(store, MEDIASERVER) # << >>

\* C5: a cycle that failed has released the lock, and every sync() waiting
\* for the lock eventually holds it.
C5_FailedCycleReleasesLock ==
    /\ [](\A t \in Threads :
             (result[t] = "raised" /\ pc[t] = "idle") => lock # t)
    /\ \A t \in Threads : [](pc[t] = "wait" => <>(lock = t))

\* after one thread's cycle failed, another thread runs its cycle
C5_Witness ==
    \E t, u \in Threads :
        /\ t # u
        /\ result[t] = "raised"
        /\ pc[t] = "idle"
        /\ lock = u
        /\ pc[u] = "items"

\* C6: when sync() has returned or raised, the session it opened is closed.
C6_SessionClosedOnExit ==
    \A t \in Threads :
        (pc[t] = "idle" /\ result[t] \in {"returned", "raised"}) =>
            session[t] # "open"

-----------------------------------------------------------------------------
(* Properties of the refresh and of the library path resolver              *)

Resolved(target) == find_librarie(target, libraries)

LocationAt(p) == libraries[p[1]].locations[p[2]]

Positions ==
    UNION {{<<i, j>> : j \in DOMAIN libraries[i].locations} :
              i \in DOMAIN libraries}

Earlier(p, q) == p[1] < q[1] \/ (p[1] = q[1] /\ p[2] < q[2])

IsPrefix(a, b) ==
    /\ Len(a) <= Len(b)
    /\ \A k \in 1..Len(a) : a[k] = b[k]

\* the root at position p owns the target: its resolved components are a
\* prefix of the target's resolved components
Owns(target, p) ==
    /\ LocationAt(p) # LoopLocation
    /\ IsPrefix(resolve(Path(LocationAt(p))), resolve(Path(target[1])))

\* C8: the resolver returns ("", "") for no path, for a path under no root
\* and when resolution raises before a root is found to own the path;
\* otherwise the key of the first library in listing order with a root
\* owning the path, together with the input path.
C8_FirstOwningLibrary ==
    op = "find_librarie" =>
        IF args = NoPath THEN ret = Unresolved
        ELSE LET events == {p \in Positions :
                               Owns(args, p) \/ LocationAt(p) = LoopLocation}
             IN IF events = {} THEN ret = Unresolved
                ELSE LET first == CHOOSE p \in events :
                                     \A q \in events \ {p} : Earlier(p, q)
                     IN IF LocationAt(first) = LoopLocation
                        THEN ret = Unresolved
                        ELSE /\ ret.lib = libraries[first[1]].key
                             /\ ret.path = PathStr(Path(args[1]))

\* the path is under roots of two libraries, reached through a ".." segment
C8_Witness ==
    /\ op = "find_librarie"
    /\ args # NoPath
    /\ Len(libraries) >= 2
    /\ \E p, q \in Positions :
          p[1] # q[1] /\ Owns(args, p) /\ Owns(args, q)
    /\ ret # Unresolved
    /\ resolve(Path(args[1])) # Path(args[1])

-----------------------------------------------------------------------------
(* Properties of the movie existence check                                 *)

CallsOf(name) == {k \in DOMAIN calls : calls[k].call = name}

\* the direct lookup of the i-th known item id finds the item
Hits(i) == plex # None /\ args.itemid[i] \in args.fetchable

\* C9: media_exists for a movie looks the known item ids up one by one in
\* list order before any search; the first hit ends the invocation with
\* "exists" and without a get_movies call; get_movies is called, once,
\* exactly when the list is empty or every lookup missed.
C9_LookupShortCircuits ==
    op = "media_exists" =>
        /\ \A k \in CallsOf("get_iteminfo") :
              /\ k \in DOMAIN args.itemid
              /\ calls[k].arg = args.itemid[k]
              /\ \A j \in CallsOf("get_movies") : k < j
              /\ Hits(k) => (k = Len(calls) /\ ret.exists)
        /\ \A i \in DOMAIN args.itemid :
              (\A j \in 1..(i - 1) : ~Hits(j)) => i \in CallsOf("get_iteminfo")
        /\ CallsOf("get_movies") # {} <=> \A i \in DOMAIN args.itemid : ~Hits(i)
        /\ Cardinality(CallsOf("get_movies")) <= 1

\* the second of two known ids hit, and the title search had candidates
C9_Witness ==
    /\ op = "media_exists"
    /\ Len(args.itemid) = 2
    /\ ~Hits(1)
    /\ Hits(2)
    /\ args.byTitle # {}
    /\ Len(calls) = 2

\* the tmdb ids a candidate exposes in its guids
ExposedTmdb(m) ==
    {MovieGuids(m)[k].rest :
        k \in {j \in DOMAIN MovieGuids(m) : MovieGuids(m)[j].prefix = "tmdb://"}}

\* the candidates of a search: the title search united with the
\* original-title search, which is made for a differing original title
Candidates ==
    IF /\ args.mediainfo.original_title # None
       /\ args.mediainfo.original_title # args.mediainfo.title
    THEN args.byTitle \cup args.byOriginal
    ELSE args.byTitle

\* C10: in the movie search a candidate exposing a tmdb id other than the
\* supplied one is rejected; one exposing the supplied id, or none, is kept;
\* without a supplied tmdb_id every candidate is kept; the movie exists
\* exactly when a candidate is kept.
C10_TmdbFilter ==
    (op = "media_exists" /\ plex # None /\ CallsOf("get_movies") # {}) =>
        LET tmdb_id == args.mediainfo.tmdb_id
        IN /\ ret.movies \subseteq Candidates
           /\ \A m \in Candidates :
                 IF tmdb_id = 0 \/ ExposedTmdb(m) = {} THEN m \in ret.movies
                 ELSE IF str(tmdb_id) \in ExposedTmdb(m) THEN m \in ret.movies
                 ELSE m \notin ret.movies
           /\ ret.exists <=> ret.movies # {}

\* a search with tmdb_id 603 over candidates exposing 603, 604 and no id
C10_Witness ==
    /\ op = "media_exists"
    /\ plex # None
    /\ CallsOf("get_movies") # {}
    /\ args.mediainfo.tmdb_id = 603
    /\ Candidates = MovieKeys
    /\ args.byTitle # MovieKeys
    /\ ret.movies = {"m1", "m3"}

-----------------------------------------------------------------------------
(* Properties of the episode lookup                                        *)

\* the videos the lookup resolves the show from, as the provider answered
TvAnswer ==
    IF args.item_ids # << >> THEN args.env.secAll
    ELSE IF args.env.byTitle # << >> THEN args.env.byTitle
    ELSE IF /\ args.mediainfo.original_title # None
            /\ args.mediainfo.original_title # args.mediainfo.title
         THEN args.env.byOriginal
         ELSE << >>

\* the tmdb ids a show exposes in its guids
ExposedShowTmdb(v) ==
    {ShowGuids(v)[k].rest :
        k \in {j \in DOMAIN ShowGuids(v) : ShowGuids(v)[j].prefix = "tmdb://"}}

\* the lookup resolved a show that exposes a tmdb id other than the supplied
TvIdConflict ==
    /\ op = "get_tv_episodes"
    /\ plex # None
    /\ ~ret.raised
    /\ TvAnswer # << >>
    /\ args.mediainfo.tmdb_id # 0
    /\ ExposedShowTmdb(TvAnswer[1]) # {}
    /\ str(args.mediainfo.tmdb_id) \notin ExposedShowTmdb(TvAnswer[1])

\* C11: for every season passed to get_tv_episodes, season 0 included, the
\* returned mapping has no key other than that season.
C11_OnlyGivenSeason ==
    (op = "get_tv_episodes" /\ args.season # NoSeason /\ ~ret.raised) =>
        DOMAIN ret.map \subseteq {args.season}

\* C12: when the resolved show exposes a tmdb id other than the supplied
\* one, the lookup returns {} at once: it reads no episodes, and it makes no
\* original-title search after a title search that found the show.
C12_MismatchAborts ==
    TvIdConflict =>
        /\ ret.map = << >>
        /\ \A k \in DOMAIN calls : calls[k] # "episodes"
        /\ args.env.byTitle # << >> =>
              \A k \in DOMAIN calls : calls[k] # "search_original"

\* the first title match conflicts while the second one and the
\* original-title search would have given a show with the supplied id
C12_Witness ==
    /\ TvIdConflict
    /\ args.item_ids = << >>
    /\ args.mediainfo.tmdb_id = 603
    /\ args.mediainfo.original_title = "o"
    /\ args.env.byTitle = <<"s2", "s1">>
    /\ args.env.byOriginal = <<"s1">>

\* the season map of a show: every season with an episode, mapped to the
\* episode numbers of that season in provider order
EpisodeMapOf(v) ==
    [s \in {ShowEpisodes(v)[k].seasonNumber : k \in DOMAIN ShowEpisodes(v)} |->
        LET inSeason == SelectSeq(ShowEpisodes(v),
                                  LAMBDA e : e.seasonNumber = s)
        IN [k \in DOMAIN inSeason |-> inSeason[k].index]]

ShowWithId(id) == CHOOSE v \in ShowKeys : ShowNativeId(v) = id

\* C19: the episode lookup by native item id, as sync makes it, returns the
\* season map of the show whose native id was passed.
C19_EpisodesOfThatShow ==
    (/\ op = "get_tv_episodes"
     /\ plex # None
     /\ args.item_ids # << >>
     /\ args.mediainfo.tmdb_id = 0
     /\ args.season = NoSeason) =>
        /\ ~ret.raised
        /\ ret.map = EpisodeMapOf(ShowWithId(args.item_ids[1]))

-----------------------------------------------------------------------------
(* Properties of the extraction of external ids                            *)

SchemeOf(varname) ==
    CASE varname = "imdb_id" -> "imdb://"
      [] varname = "tmdb_id" -> "tmdb://"
      [] OTHER -> "tvdb://"

\* the positions of the entries of a guid list that belong to a scheme
EntriesOf(guids, prefix) == {k \in DOMAIN guids : guids[k].prefix = prefix}

FirstOf(guids, prefix) ==
    IF EntriesOf(guids, prefix) = {} THEN None
    ELSE guids[CHOOSE k \in EntriesOf(guids, prefix) :
                   \A j \in EntriesOf(guids, prefix) : k <= j].rest

\* C13: for each of the schemes imdb, tmdb and tvdb the extracted id is the
\* one of the first entry of the guid list that belongs to the scheme, later
\* entries of the same scheme never replace it, and a scheme without entry
\* yields None; dict and object entries may be mixed.
C13_FirstEntryWins ==
    op = "get_ids" =>
        \A v \in {"imdb_id", "tmdb_id", "tvdb_id"} :
            ret[v] = FirstOf(args, SchemeOf(v))

-----------------------------------------------------------------------------
(* Properties of the webhook normalisation                                 *)

\* the forms for which the normalizer has to answer None
Untyped(form) ==
    \/ form.empty
    \/ form.payload = << >>
    \/ ~form.payload[1].valid
    \/ form.payload[1].message.event = None

\* C14: get_webhook_message never raises; it returns None for an empty form,
\* a missing payload, a payload that is not JSON and a missing event, and an
\* event for every other form, whether or not Metadata has a summary and
\* whether or not the artwork lookup succeeds.
C14_NeverRaises ==
    op = "get_webhook_message" =>
        /\ ~ret.raised
        /\ ret.event = << >> <=> Untyped(args.form)

\* the Player section of the message names no client
NoClientTitle(form) ==
    LET message == form.payload[1].message
    IN message.Player = << >> \/ message.Player[1].title = None

\* C15: the client of a returned event is never None; without a Player
\* section, or with a Player section that has no title, it is the single
\* blank.
C15_ClientNeverNone ==
    (op = "get_webhook_message" /\ ~ret.raised /\ ret.event # << >>) =>
        /\ ret.event[1].client # None
        /\ NoClientTitle(args.form) => ret.event[1].client = " "

-----------------------------------------------------------------------------
(* Properties of the periodic reconnect check                              *)

\* C16: scheduler_job builds the adapter again exactly when the adapter is
\* configured and its last connection attempt failed: a check that finds it
\* unreachable makes a new attempt, a check that finds it reachable (or not
\* configured) does not.
C16_ReconnectsWhenUnreachable ==
    op = "scheduler_job" =>
        (calls = <<"Plex">> <=> (args.configured /\ args.plex = None))

-----------------------------------------------------------------------------
(* Properties of the adapter under transport failures                      *)

\* C17: a transport failure of the backend during an adapter operation is
\* caught inside the adapter and answered with an empty result, so that
\* media_exists reports absence and does not raise.
C17_TransportFaultCaught ==
    (op = "media_exists_tv" /\ plex # None /\ args.env.fails) =>
        /\ ~ret.raised
        /\ ~ret.exists

-----------------------------------------------------------------------------
(* Properties of the synchronizer under faults                             *)

\* C18: a fault while one library is enumerated or one of its items is
\* processed does not abort the cycle: as long as libraries of the listing
\* remain, no step of the thread takes it out of the loop over the items.
C18_FaultIsolated ==
    [][\A t \in Threads :
          (pc[t] = "items" /\ libsLeft[t] > 0) => pc'[t] = "items"]_vars

-----------------------------------------------------------------------------
(* Properties of the catalog existence query                               *)

\* the stored season map of the row contains the season
HasSeason(row, season) == str(season.value) \in DOMAIN row.seasoninfo

\* the rows the query matches by tmdb id or by title
Matched(db, kwargs) ==
    IF kwargs.tmdbid # 0
    THEN exist_by_tmdbid(db, kwargs.tmdbid, kwargs.mtype)
    ELSE IF kwargs.title # None
         THEN exists_by_title(db, kwargs.title, kwargs.mtype)
         ELSE << >>

\* C20: exists called with a season returns only rows whose stored season
\* map contains that season; when no matched row has the season the result
\* is empty and get_item_id_list returns no ids.
C20_OnlyItemsWithSeason ==
    (op = "get_item_id_list" /\ args.season.type # "none") =>
        /\ \A k \in DOMAIN ret.items : HasSeason(ret.items[k], args.season)
        /\ (\A k \in DOMAIN Matched(store, args) :
               ~HasSeason(Matched(store, args)[k], args.season)) =>
              (ret.items = << >> /\ ret.ids = << >>)

====
